---- MODULE Spec2Model ----
(***************************************************************************)
(* Profit-and-loss report views of figured-intern-experience.              *)
(*                                                                         *)
(* src/resources/js/pages/Challenge.vue holds three revisions of the       *)
(* Challenge page: the advanced page (lines 1-783), the starter page       *)
(* (lines 784-1023) and the typed page (lines 1024-1677).  Together with   *)
(* pages/EasyMode.vue and components/FinancialSection.vue they are the     *)
(* five views of this model; `page` says which one is mounted.             *)
(***************************************************************************)
EXTENDS Integers, Sequences, FiniteSets, TLC

VARIABLES
    page,              \* which view is mounted
    mounted,           \* onMounted has run
    reportData,        \* 0 = null, i > 0 = the document Docs[i]
    loading,
    error,
    fetchPending,      \* report requests in flight
    expandedSections,  \* the expansion set of the advanced and typed pages
    aiPrompt,
    aiResponse,
    aiLoading,
    aiError,
    aiPending,         \* commentary requests in flight
    showAICommentary,  \* showAIPanel in the typed page
    showExportMenu,
    isExporting,
    section,           \* FinancialSection: the document whose sections are the props
    isExpanded,        \* FinancialSection: id of a mounted instance -> its isExpanded ref
    lastOp,            \* the handler that ran last, with its argument
    call,              \* one evaluation of a formatting or arithmetic helper
    selectedMonth      \* EasyMode: the column picked in the period selector, from 0

vars == <<page, mounted, reportData, loading, error, fetchPending, expandedSections,
          aiPrompt, aiResponse, aiLoading, aiError, aiPending, showAICommentary,
          showExportMenu, isExporting, section, isExpanded, lastOp, call,
          selectedMonth>>

-----------------------------------------------------------------------------
(* Bounds *)

\* commentary requests that may be in flight at once
MaxPending == 2

\* columns of the widest report whose cells are examined one by one
MaxColumns == 4

-----------------------------------------------------------------------------
(* Values *)

Pages == {"Advanced", "Starter", "Typed", "EasyMode", "FinancialSection"}

\* JavaScript null of a `string | null` ref
NULL == "null"

FetchFailedMsg == "Failed to fetch financial data"
CommentaryFailedMsg == "Failed to generate commentary"
\* message of the TypeError / SyntaxError of a rejected fetch() or json()
RejectedMsg == "NetworkError when attempting to fetch resource"
NoResponseMsg == "No response received"

\* outcomes of one network call: 2xx with a body, non-2xx, rejected promise
Outcomes == {"ok", "notOk", "rejected"}

\* texts the user can leave in the prompt box
Prompts == {"", " ", "How are margins?"}

\* String.prototype.trim on the prompts
Trim(s) == IF s = " " THEN "" ELSE s

\* `response` field of the commentary endpoint's body
Responses == {"", "Margins are stable."}

-----------------------------------------------------------------------------
(* Report documents.  An optional field of the source's types is a field   *)
(* the record may lack.                                                    *)

Has(r, f) == f \in DOMAIN r

Range(s) == {s[i] : i \in 1..Len(s)}

Columns3 == <<[month |-> "Jan", type |-> "Actual"],
              [month |-> "Feb", type |-> "Forecast"],
              [month |-> "Total", type |-> "Total"]>>

LineItem(n, a, v) == [name |-> n, account_id |-> a, values |-> v]

\* a typical document: income and operating expenses, four levels
DocFarm ==
    [columns |-> Columns3,
     sections |-> <<
        [id |-> "income", name |-> "Income", level |-> 1,
         collapsible |-> TRUE, expanded |-> TRUE,
         total |-> [name |-> "Total Income", values |-> <<3, 4, 7>>],
         subsections |-> <<
            [id |-> "sales", name |-> "Sales", level |-> 2,
             collapsible |-> TRUE, expanded |-> TRUE,
             total |-> [name |-> "Total Sales", values |-> <<4, 5, 9>>],
             line_items |-> <<LineItem("Grazing", "a1", <<1, 0, 1>>)>>,
             subsections |-> <<
                [id |-> "wool", name |-> "Wool", level |-> 3,
                 collapsible |-> TRUE, expanded |-> FALSE,
                 line_items |-> <<LineItem("Fleece", "a2", <<2, 4, 6>>)>>,
                 subsections |-> <<
                    [id |-> "merino", name |-> "Merino", level |-> 4,
                     collapsible |-> TRUE, expanded |-> TRUE,
                     line_items |-> <<LineItem("Lambswool", "a3", <<1, 1, 2>>)>>]>>]>>]>>],
        [id |-> "operating_expenses", name |-> "Operating Expenses", level |-> 1,
         collapsible |-> TRUE, expanded |-> FALSE,
         total |-> [name |-> "Total Operating Expenses", values |-> <<-1, -2, -3>>],
         subsections |-> <<>>]>>,
     summary |-> <<[name |-> "Operating Surplus", values |-> <<2, 2, 4>>],
                   [name |-> "Net Profit", values |-> <<2, 2, 4>>]>>]

\* a document with no operating-expenses section, whose income section is sent
\* collapsed and not collapsible
DocTrading ==
    [columns |-> Columns3,
     sections |-> <<
        [id |-> "income", name |-> "Income", level |-> 1,
         collapsible |-> FALSE, expanded |-> FALSE,
         subsections |-> <<
            [id |-> "cost_of_sales", name |-> "Cost of Sales", level |-> 2,
             collapsible |-> TRUE, expanded |-> TRUE,
             line_items |-> <<LineItem("Freight", "b1", <<-1, -1, -2>>)>>,
             gross_profit |-> [name |-> "Gross Profit", values |-> <<4, 5, 9>>]]>>]>>,
     summary |-> <<[name |-> "Operating Surplus", values |-> <<4, 5, 9>>]>>]

\* a document whose only section is a pure header: nothing under it, no total;
\* its summary is a single note, a row that has no values
DocHeader ==
    [columns |-> Columns3,
     sections |-> <<
        [id |-> "other", name |-> "Other", level |-> 1,
         collapsible |-> TRUE, expanded |-> TRUE,
         subsections |-> <<>>]>>,
     summary |-> <<[name |-> "No transactions"]>>]

Docs == <<DocFarm, DocTrading, DocHeader>>

NumDocs == Len(Docs)

\* `section.subsections` where the template iterates it: v-for over undefined
\* renders nothing
SubsectionsOf(s) == IF Has(s, "subsections") THEN s.subsections ELSE <<>>

RECURSIVE IdsOf(_)
\* the ids of the sections of a list and of all their descendants
IdsOf(secs) == UNION {{s.id} \cup IdsOf(SubsectionsOf(s)) : s \in Range(secs)}

\* every id a section of some document carries, and the two ids the advanced
\* page starts with
SectionIds ==
    UNION {IdsOf(Docs[d].sections) : d \in 1..NumDocs}
    \cup {"income", "operating_expenses"}

\* lastOp before any handler has run
NoOp == [op |-> "none", id |-> "", prev |-> [op |-> "none", id |-> ""], before |-> {}]

-----------------------------------------------------------------------------
(* Initial state: the refs of the <script setup> blocks *)

fetchVars == <<reportData, loading, error, fetchPending>>
aiVars == <<aiPrompt, aiResponse, aiLoading, aiError, aiPending>>
menuVars == <<showAICommentary, showExportMenu, isExporting>>
sectionVars == <<section, isExpanded>>

\* the pages that load the report themselves
ReportPages == Pages \ {"FinancialSection"}

\* the pages that keep an expansion set
ExpansionPages == {"Advanced", "Typed"}

\* the pages with a commentary panel
CommentaryPages == {"Advanced", "Starter", "Typed"}

\* new Set([...]) of the page's expandedSections ref
InitialExpanded(p) == IF p = "Advanced" THEN {"income", "operating_expenses"} ELSE {}

\* the content block of an instance: v-if="isExpanded || !section.collapsible"
ContentShown(sec, e) == e \/ ~sec.collapsible

RECURSIVE Render(_, _)
\* FinancialSection instances mounted under a list of sections, each with its
\* isExpanded ref: an instance already mounted keeps its ref, a new one starts
\* from props.section.expanded || false; the subsections of an instance are
\* mounted while its content block is rendered
Render(secs, old) ==
    UNION {LET e == IF s.id \in DOMAIN old THEN old[s.id] ELSE s.expanded
           IN {<<s.id, e>>} \cup
              (IF ContentShown(s, e) THEN Render(SubsectionsOf(s), old) ELSE {})
           : s \in Range(secs)}

\* the set of <<id, flag>> pairs as a function on the mounted ids
AsRefs(pairs) == [i \in {pr[1] : pr \in pairs} |-> \E pr \in pairs : pr[1] = i /\ pr[2]]

NoRefs == [i \in {} |-> FALSE]

\* selectedMonth = ref<number>(12): "Default to total column"
DefaultMonth == 12

\* the state of the view p once its setup script has run
InitPage(p) ==
    /\ page = p
    /\ selectedMonth = DefaultMonth
    /\ mounted = FALSE
    /\ reportData = 0
    /\ loading = (page \in ReportPages)
    /\ error = NULL
    /\ fetchPending = 0
    /\ expandedSections = InitialExpanded(page)
    /\ aiPrompt = ""
    /\ aiResponse = ""
    /\ aiLoading = FALSE
    /\ aiError = NULL
    /\ aiPending = 0
    /\ showAICommentary = FALSE
    /\ showExportMenu = FALSE
    /\ isExporting = FALSE
    /\ IF page = "FinancialSection"
       THEN /\ section \in 1..NumDocs
            /\ isExpanded = AsRefs(Render(Docs[section].sections, NoRefs))
       ELSE /\ section = 0
            /\ isExpanded = NoRefs
    /\ lastOp = NoOp

\* no helper is being evaluated on its own
NoCall == [fn |-> "none", done |-> TRUE]

Init ==
    /\ \E p \in Pages : InitPage(p)
    /\ call = NoCall

\* lastOp once the handler `name` has run with argument id: the handler that ran
\* before it, and for a toggle the expanded ids it found
Ran(name, id, before) ==
    [op |-> name, id |-> id, prev |-> [op |-> lastOp.op, id |-> lastOp.id],
     before |-> before]

-----------------------------------------------------------------------------
(* The report request: fetchFinancialData *)

\* the v-if / v-else-if chain of a page: which block is rendered
LoadingShown == loading
ErrorShown == ~loading /\ error # NULL
\* a chain whose report block is a plain v-if beside the error block
ReportShownBesideError == ~loading /\ reportData # 0
ReportShown == ~loading /\ error = NULL /\ reportData # 0

\* message of the TypeError of `undefined.forEach`
TypeErrorMsg == "Cannot read properties of undefined (reading 'forEach')"

\* ids added for the subsections of one section and their subsections
SeedSubsections(subs) ==
    UNION {(IF sub.expanded THEN {sub.id} ELSE {}) \cup
           (IF Has(sub, "subsections")
            THEN {s3.id : s3 \in {x \in Range(sub.subsections) : x.expanded}}
            ELSE {})
           : sub \in Range(subs)}

RECURSIVE SeedFrom(_, _, _)
\* the forEach over data.sections from index i on; `section.subsections.forEach`
\* throws on a section without subsections and ends the loop there
SeedFrom(secs, i, E) ==
    IF i > Len(secs) THEN [expanded |-> E, threw |-> FALSE]
    ELSE LET s == secs[i]
             E1 == IF s.expanded THEN E \cup {s.id} ELSE E
         IN IF ~Has(s, "subsections")
            THEN [expanded |-> E1, threw |-> TRUE]
            ELSE SeedFrom(secs, i + 1, E1 \cup SeedSubsections(s.subsections))

initializeExpandedSections(data, E) == SeedFrom(data.sections, 1, E)

\* fetchFinancialData up to its first await
FetchStart ==
    /\ loading' = TRUE
    /\ fetchPending' = fetchPending + 1
    /\ UNCHANGED <<reportData, error>>

\* onMounted of the four pages
OnMounted ==
    /\ page \in ReportPages
    /\ ~mounted
    /\ mounted' = TRUE
    /\ FetchStart
    /\ lastOp' = Ran("onMounted", "", {})
    /\ UNCHANGED <<call, selectedMonth, page, expandedSections, aiVars, menuVars, sectionVars>>

\* the Try Again button of the error block
TryAgain ==
    /\ page \in ReportPages
    /\ mounted
    /\ ErrorShown
    /\ FetchStart
    /\ lastOp' = Ran("tryAgain", "", {})
    /\ UNCHANGED <<call, selectedMonth, page, mounted, expandedSections, aiVars, menuVars, sectionVars>>

\* a catch block that also drops the document of an earlier success
FetchSettleClearingOnFailure(o, d) ==
    /\ page \in ReportPages
    /\ fetchPending > 0
    /\ fetchPending' = fetchPending - 1
    /\ loading' = FALSE
    /\ IF o = "ok"
       THEN /\ reportData' = d
            /\ IF page = "Typed"
               THEN LET r == initializeExpandedSections(Docs[d], expandedSections)
                    IN /\ expandedSections' = r.expanded
                       /\ error' = IF r.threw THEN TypeErrorMsg ELSE error
               ELSE UNCHANGED <<expandedSections, error>>
       ELSE /\ error' = (IF o = "notOk" THEN FetchFailedMsg ELSE RejectedMsg)
            /\ reportData' = 0
            /\ UNCHANGED expandedSections
    /\ lastOp' = Ran(IF o = "ok" THEN "fetchOk" ELSE "fetchFailed", "", {})
    /\ UNCHANGED <<call, selectedMonth, page, mounted, aiVars, menuVars, sectionVars>>
\* a catch block that also collapses every section
FetchSettleCollapsingOnFailure(o, d) ==
    /\ page \in ReportPages
    /\ fetchPending > 0
    /\ fetchPending' = fetchPending - 1
    /\ loading' = FALSE
    /\ IF o = "ok"
       THEN /\ reportData' = d
            /\ IF page = "Typed"
               THEN LET r == initializeExpandedSections(Docs[d], expandedSections)
                    IN /\ expandedSections' = r.expanded
                       /\ error' = IF r.threw THEN TypeErrorMsg ELSE error
               ELSE UNCHANGED <<expandedSections, error>>
       ELSE /\ error' = (IF o = "notOk" THEN FetchFailedMsg ELSE RejectedMsg)
            /\ expandedSections' = {}
            /\ UNCHANGED reportData
    /\ lastOp' = Ran(IF o = "ok" THEN "fetchOk" ELSE "fetchFailed", "", {})
    /\ UNCHANGED <<call, selectedMonth, page, mounted, aiVars, menuVars, sectionVars>>
\* the rest of fetchFinancialData once the request settles with outcome o and,
\* for a 2xx answer, the document Docs[d]
FetchSettle(o, d) ==
    /\ page \in ReportPages
    /\ fetchPending > 0
    /\ fetchPending' = fetchPending - 1
    /\ loading' = FALSE
    /\ IF o = "ok"
       THEN /\ reportData' = d
            /\ IF page = "Typed"
               THEN LET r == initializeExpandedSections(Docs[d], expandedSections)
                    IN /\ expandedSections' = r.expanded
                       /\ error' = IF r.threw THEN TypeErrorMsg ELSE error
               ELSE UNCHANGED <<expandedSections, error>>
       ELSE /\ error' = (IF o = "notOk" THEN FetchFailedMsg ELSE RejectedMsg)
            /\ UNCHANGED <<reportData, expandedSections>>
    /\ lastOp' = Ran(IF o = "ok" THEN "fetchOk" ELSE "fetchFailed", "", {})
    /\ UNCHANGED <<call, selectedMonth, page, mounted, aiVars, menuVars, sectionVars>>

-----------------------------------------------------------------------------
(* The commentary request: generateCommentary *)

\* the commentary panel is part of the report block; the advanced and typed
\* pages render it only while showAICommentary / showAIPanel is set
PanelShown ==
    /\ page \in CommentaryPages
    /\ ReportShown
    /\ (page = "Starter" \/ showAICommentary)

\* :disabled of the prompt box
InputDisabled == aiLoading

\* the Generate button disabled on an empty prompt only
ButtonDisabledOnEmptyPromptOnly == Trim(aiPrompt) = ""

\* :disabled of the Generate button
ButtonDisabled == Trim(aiPrompt) = "" \/ aiLoading

\* generateCommentary up to its first await
GenerateCommentary ==
    IF Trim(aiPrompt) = "" \/ (page = "Typed" /\ reportData = 0)
    THEN UNCHANGED aiVars
    ELSE /\ aiPending < MaxPending
         /\ aiLoading' = TRUE
         /\ aiError' = NULL
         /\ aiPending' = aiPending + 1
         /\ UNCHANGED <<aiPrompt, aiResponse>>

\* v-model of the prompt box
TypePrompt(p) ==
    /\ PanelShown
    /\ ~InputDisabled
    /\ aiPrompt' = p
    /\ lastOp' = Ran("typePrompt", "", {})
    /\ UNCHANGED <<call, selectedMonth, page, mounted, fetchVars, expandedSections, aiResponse, aiLoading,
                   aiError, aiPending, menuVars, sectionVars>>

\* a Suggested Questions button of the typed page
SuggestQuestion ==
    /\ page = "Typed"
    /\ PanelShown
    /\ aiPrompt' = "How are margins?"
    /\ lastOp' = Ran("suggestQuestion", "", {})
    /\ UNCHANGED <<call, selectedMonth, page, mounted, fetchVars, expandedSections, aiResponse, aiLoading,
                   aiError, aiPending, menuVars, sectionVars>>

\* @click of the Generate button
ClickGenerate ==
    /\ PanelShown
    /\ ~ButtonDisabled
    /\ GenerateCommentary
    /\ lastOp' = Ran("generateCommentary", "", {})
    /\ UNCHANGED <<call, selectedMonth, page, mounted, fetchVars, expandedSections, menuVars, sectionVars>>

\* @keyup.enter of the prompt box of the advanced page
EnterPrompt ==
    /\ page = "Advanced"
    /\ PanelShown
    /\ ~InputDisabled
    /\ GenerateCommentary
    /\ lastOp' = Ran("generateCommentary", "", {})
    /\ UNCHANGED <<call, selectedMonth, page, mounted, fetchVars, expandedSections, menuVars, sectionVars>>

\* the rest of generateCommentary once the request settles with outcome o and,
\* for a 2xx answer, the body {response: r}
CommentarySettle(o, r) ==
    /\ aiPending > 0
    /\ aiPending' = aiPending - 1
    /\ aiLoading' = FALSE
    /\ IF o = "ok"
       THEN /\ aiResponse' = IF r = "" THEN NoResponseMsg ELSE r
            /\ UNCHANGED aiError
       ELSE /\ aiError' = IF o = "notOk" THEN CommentaryFailedMsg ELSE RejectedMsg
            /\ UNCHANGED aiResponse
    /\ lastOp' = Ran(IF o = "ok" THEN "commentaryOk" ELSE "commentaryFailed", "", {})
    /\ UNCHANGED <<call, selectedMonth, page, mounted, fetchVars, expandedSections, aiPrompt, menuVars,
                   sectionVars>>

\* the AI Insights button of the header
ClickAIInsights ==
    /\ page \in {"Advanced", "Typed"}
    /\ mounted
    /\ showAICommentary' = ~showAICommentary
    /\ lastOp' = Ran("aiInsights", "", {})
    /\ UNCHANGED <<call, selectedMonth, page, mounted, fetchVars, expandedSections, aiVars, showExportMenu,
                   isExporting, sectionVars>>

\* the close button of the panel
ClosePanel ==
    /\ page \in {"Advanced", "Typed"}
    /\ PanelShown
    /\ showAICommentary' = FALSE
    /\ lastOp' = Ran("closePanel", "", {})
    /\ UNCHANGED <<call, selectedMonth, page, mounted, fetchVars, expandedSections, aiVars, showExportMenu,
                   isExporting, sectionVars>>

-----------------------------------------------------------------------------
(* The expansion set of the advanced and typed pages *)

\* toggleSection that only ever adds
toggleSectionAddOnly(E, sectionId) == E \cup {sectionId}

\* toggleSection that only ever deletes
toggleSectionDeleteOnly(E, sectionId) == E \ {sectionId}

\* toggleSection: Set.has, then Set.delete or Set.add
toggleSection(E, sectionId) ==
    IF sectionId \in E THEN E \ {sectionId} ELSE E \cup {sectionId}

\* the header rows the table renders, by id: every top-level section, the
\* subsections of a section in the set, and the sub-subsections of such a
\* subsection that is in the set itself
HeaderRows(data, E) ==
    {s.id : s \in Range(data.sections)}
    \cup UNION {IF s.id \in E
                THEN {sub.id : sub \in Range(SubsectionsOf(s))}
                     \cup UNION {IF sub.id \in E
                                 THEN {s3.id : s3 \in Range(SubsectionsOf(sub))}
                                 ELSE {}
                                 : sub \in Range(SubsectionsOf(s))}
                ELSE {}
                : s \in Range(data.sections)}

\* line-item rows under a sub-subsection shown whenever the subsection and the
\* sub-subsection are in the set
LineItemRowsIgnoringSection(data, E) ==
    UNION {UNION {UNION {IF sub.id \in E /\ s3.id \in E /\ Has(s3, "line_items")
                         THEN {<<s3.id, k>> : k \in 1..Len(s3.line_items)}
                         ELSE {}
                         : s3 \in Range(SubsectionsOf(sub))}
                  : sub \in Range(SubsectionsOf(s))}
           : s \in Range(data.sections)}
\* the line-item rows the advanced page's table renders, as <<id of the
\* sub-subsection, position>>: the v-for over subSubsection.line_items sits
\* inside the v-if on the section's, the subsection's and the
\* sub-subsection's id
LineItemRows(data, E) ==
    UNION {UNION {UNION {IF s.id \in E /\ sub.id \in E /\ s3.id \in E
                            /\ Has(s3, "line_items")
                         THEN {<<s3.id, k>> : k \in 1..Len(s3.line_items)}
                         ELSE {}
                         : s3 \in Range(SubsectionsOf(sub))}
                  : sub \in Range(SubsectionsOf(s))}
           : s \in Range(data.sections)}

\* @click of a header row
ClickHeader(id) ==
    /\ page \in ExpansionPages
    /\ ReportShown
    /\ id \in HeaderRows(Docs[reportData], expandedSections)
    /\ expandedSections' = toggleSection(expandedSections, id)
    /\ lastOp' = Ran("toggleSection", id, expandedSections)
    /\ UNCHANGED <<call, selectedMonth, page, mounted, fetchVars, aiVars, menuVars, sectionVars>>

\* the allSections set that Alt+X builds: three levels of ids
AllSections(data) ==
    UNION {{s.id}
           \cup UNION {{sub.id} \cup {s3.id : s3 \in Range(SubsectionsOf(sub))}
                       : sub \in Range(SubsectionsOf(s))}
           : s \in Range(data.sections)}

\* Alt+X: expandedSections.value = allSections, when a document is loaded
expandAll(E, rd) == IF rd # 0 THEN AllSections(Docs[rd]) ELSE E

\* Alt+C guarded by a loaded document, as Alt+X is
collapseAllWithDocument(E, rd) == IF rd # 0 THEN {} ELSE E

\* Alt+C: expandedSections.value.clear(), with or without a document
collapseAll(E, rd) == {}

Keys == {"Alt+e", "Alt+a", "Alt+c", "Alt+x", "Escape"}

\* handleKeydown of the advanced page, registered by onMounted
HandleKeydown(key) ==
    /\ page = "Advanced"
    /\ mounted
    /\ showExportMenu' =
          IF key = "Alt+e" THEN ~showExportMenu
          ELSE IF key = "Escape" THEN FALSE ELSE showExportMenu
    /\ showAICommentary' =
          IF key = "Alt+a" THEN ~showAICommentary
          ELSE IF key = "Escape" THEN FALSE ELSE showAICommentary
    /\ expandedSections' =
          IF key = "Alt+c" THEN collapseAll(expandedSections, reportData)
          ELSE IF key = "Alt+x" THEN expandAll(expandedSections, reportData)
          ELSE expandedSections
    /\ lastOp' = Ran(key, "", {})
    /\ UNCHANGED <<call, selectedMonth, page, mounted, fetchVars, aiVars, isExporting, sectionVars>>

-----------------------------------------------------------------------------
(* Export of the advanced page *)

\* the Export button of the header
ClickExportMenu ==
    /\ page = "Advanced"
    /\ mounted
    /\ ~isExporting
    /\ showExportMenu' = ~showExportMenu
    /\ lastOp' = Ran("exportMenu", "", {})
    /\ UNCHANGED <<call, selectedMonth, page, mounted, fetchVars, expandedSections, aiVars, showAICommentary,
                   isExporting, sectionVars>>

\* building the rows throws a TypeError at summaryItem.values.join(',') when a
\* summary row has no values
CsvThrows(data) == \E k \in 1..Len(data.summary) : ~Has(data.summary[k], "values")

\* the build of the file's content throws: JSON.stringify of a parsed document
\* never does
Throws(kind, data) == kind = "exportAsCSV" /\ CsvThrows(data)

\* the handlers with the clean-up after downloadFile instead of in a finally
\* block: a throw leaves isExporting set and the menu open
ExportWithoutFinally(kind) ==
    /\ page = "Advanced"
    /\ showExportMenu
    /\ ~isExporting
    /\ IF reportData = 0
       THEN UNCHANGED <<isExporting, showExportMenu>>
       ELSE IF Throws(kind, Docs[reportData])
            THEN /\ isExporting' = TRUE
                 /\ UNCHANGED showExportMenu
            ELSE /\ isExporting' = FALSE
                 /\ showExportMenu' = FALSE
    /\ lastOp' = Ran(kind,
                     IF reportData # 0 /\ Throws(kind, Docs[reportData]) THEN "threw" ELSE "",
                     {})
    /\ UNCHANGED <<call, selectedMonth, page, mounted, fetchVars, expandedSections, aiVars, showAICommentary,
                   sectionVars>>
\* exportAsCSV / exportAsJSON from the dropdown: nothing without a document;
\* with one, isExporting is set, the file is built and offered, and the finally
\* block clears isExporting and closes the menu, whether the try block
\* completed or threw
Export(kind) ==
    /\ page = "Advanced"
    /\ showExportMenu
    /\ ~isExporting
    /\ IF reportData = 0
       THEN UNCHANGED <<isExporting, showExportMenu>>
       ELSE /\ isExporting' = FALSE
            /\ showExportMenu' = FALSE
    /\ lastOp' = Ran(kind,
                     IF reportData # 0 /\ Throws(kind, Docs[reportData]) THEN "threw" ELSE "",
                     {})
    /\ UNCHANGED <<call, selectedMonth, page, mounted, fetchVars, expandedSections, aiVars, showAICommentary,
                   sectionVars>>

-----------------------------------------------------------------------------
(* Aggregation: calculateSectionTotal.  Column indices count from 1 here,  *)
(* from 0 in the source.                                                   *)

\* a lookup that falls back on the last entry of a short array
ValueOrLast(values, columnIndex) ==
    IF columnIndex \in 1..Len(values)
    THEN values[columnIndex]
    ELSE IF values = <<>> THEN 0 ELSE values[Len(values)]
\* item.values[columnIndex] || 0: a missing entry counts as 0
ValueOrZero(values, columnIndex) ==
    IF columnIndex \in 1..Len(values) THEN values[columnIndex] ELSE 0

RECURSIVE AddLineItems(_, _, _)
\* line_items.forEach((item) => { total += item.values[columnIndex] || 0 })
AddLineItems(line_items, columnIndex, total) ==
    IF line_items = <<>>
    THEN total
    ELSE AddLineItems(Tail(line_items), columnIndex,
                      total + ValueOrZero(Head(line_items).values, columnIndex))

RECURSIVE processSubsections(_, _, _)
\* the running total once the forEach over `subsections` has finished: each
\* subsection adds its own line items, then those below its subsections
processSubsections(subsections, columnIndex, total) ==
    IF subsections = <<>>
    THEN total
    ELSE LET subsection == Head(subsections)
             withItems == IF Has(subsection, "line_items")
                          THEN AddLineItems(subsection.line_items, columnIndex, total)
                          ELSE total
             withBelow == IF Has(subsection, "subsections")
                          THEN processSubsections(subsection.subsections, columnIndex,
                                                  withItems)
                          ELSE withItems
         IN processSubsections(Tail(subsections), columnIndex, withBelow)

\* an aggregator that stops at the line items of the immediate subsections
calculateSectionTotalOneLevel(sec, columnIndex) ==
    IF Has(sec, "subsections")
    THEN LET direct == [k \in 1..Len(sec.subsections) |->
                            [id |-> sec.subsections[k].id,
                             line_items |-> IF Has(sec.subsections[k], "line_items")
                                            THEN sec.subsections[k].line_items
                                            ELSE <<>>]]
         IN processSubsections(direct, columnIndex, 0)
    ELSE 0
calculateSectionTotal(sec, columnIndex) ==
    IF Has(sec, "subsections")
    THEN processSubsections(sec.subsections, columnIndex, 0)
    ELSE 0

-----------------------------------------------------------------------------

(* Formatting.  An amount handed to a formatter is written in tenths (15   *)
(* is 1.5), so that an amount with a fraction can be formatted; the values *)
(* of the documents above are whole amounts.                               *)

\* a whole amount in tenths
Whole(v) == v * 10

\* Math.abs
Abs(v) == IF v < 0 THEN 0 - v ELSE v

\* Intl.NumberFormat with maximumFractionDigits 0: the nearest whole number,
\* a half going away from zero
NearestWhole(absValue) == (absValue + 5) \div 10

\* views that define formatCurrency
FormattingViews == {"Advanced", "EasyMode", "Typed", "FinancialSection"}

\* formatCurrency of a view: the text as its parts.  The advanced page and
\* EasyMode format with Intl en-NZ currency NZD and no fraction digits, the
\* typed page with Intl en-US and no fraction digits (no symbol), the component
\* with toLocaleString(), which keeps the fraction digits of the amount
formatCurrency(view, value) ==
    LET absValue == Abs(value)
    IN IF view = "FinancialSection"
       THEN [parens |-> value < 0, symbol |-> "$", digits |-> absValue \div 10,
             decimals |-> absValue % 10]
       ELSE [parens |-> value < 0, symbol |-> IF view = "Typed" THEN "" ELSE "$",
             digits |-> NearestWhole(absValue), decimals |-> 0]

\* the text of an empty cell
EmptyText == [blank |-> TRUE]

\* advanced page, header row of a top-level section: its total cell
SectionTotalCell(sec, columnIndex) ==
    IF Has(sec, "total")
    THEN formatCurrency("Advanced", Whole(sec.total.values[columnIndex]))
    ELSE EmptyText

\* advanced page, header row of a subsection: its total cell
SubsectionTotalCell(subsection, columnIndex) ==
    formatCurrency("Advanced", Whole(calculateSectionTotal(subsection, columnIndex)))

\* Number.prototype.toLocaleString: sign, grouped digits, fraction digits
LocaleString(value) ==
    [minus |-> value < 0, digits |-> Abs(value) \div 10, decimals |-> Abs(value) % 10]

\* the placeholder shown in place of an amount
Glyph(g) == [glyph |-> g]

\* views that render line-item rows
LineItemViews == {"Advanced", "Starter", "Typed", "FinancialSection"}

\* the text of a line-item cell: the component shows a dash for 0, the typed
\* page a hyphen; the advanced page formats every value, the starter page
\* prints value.toLocaleString()
LineItemCell(view, value) ==
    CASE view = "FinancialSection" ->
            IF value # 0 THEN formatCurrency(view, value) ELSE Glyph("em dash")
      [] view = "Typed" ->
            IF value = 0 THEN Glyph("hyphen") ELSE formatCurrency(view, value)
      [] view = "Advanced" -> formatCurrency(view, value)
      [] view = "Starter" -> LocaleString(value)

-----------------------------------------------------------------------------
(* Export: the rows of exportAsCSV.  A row is its first field (quoted or   *)
(* not, with its indent) and its cells.                                    *)

Row(q, ind, n, c) == [quoted |-> q, indent |-> ind, name |-> n, cells |-> c]

\* ['Account', ...columns.map(col => col.month)]
HeaderRow(data) ==
    Row(FALSE, 0, "Account", [k \in 1..Len(data.columns) |-> data.columns[k].month])

\* the row of a top-level section: its total, or one empty cell per column
SectionRow(sec, data) ==
    Row(TRUE, 0, sec.name,
        IF Has(sec, "total")
        THEN sec.total.values
        ELSE [k \in 1..Len(data.columns) |-> ""])

\* the row of a subsection: calculateSectionTotal for every column
SubsectionRow(subsection, data) ==
    Row(TRUE, 2, subsection.name,
        [k \in 1..Len(data.columns) |-> calculateSectionTotal(subsection, k)])

ItemRows(line_items) ==
    [k \in 1..Len(line_items) |-> Row(TRUE, 4, line_items[k].name, line_items[k].values)]

RECURSIVE SubSubsectionRows(_)
\* subsection.subsections.forEach: the line items of each sub-subsection
SubSubsectionRows(subSubsections) ==
    IF subSubsections = <<>>
    THEN <<>>
    ELSE (IF Has(Head(subSubsections), "line_items")
          THEN ItemRows(Head(subSubsections).line_items)
          ELSE <<>>)
         \o SubSubsectionRows(Tail(subSubsections))

RECURSIVE SubsectionRows(_, _)
\* section.subsections.forEach: the subsection's row, then its sub-subsections
SubsectionRows(subsections, data) ==
    IF subsections = <<>>
    THEN <<>>
    ELSE <<SubsectionRow(Head(subsections), data)>>
         \o (IF Has(Head(subsections), "subsections")
             THEN SubSubsectionRows(Head(subsections).subsections)
             ELSE <<>>)
         \o SubsectionRows(Tail(subsections), data)

RECURSIVE SectionRows(_, _)
\* sections.forEach: the section's row, then its subsections
SectionRows(sections, data) ==
    IF sections = <<>>
    THEN <<>>
    ELSE <<SectionRow(Head(sections), data)>>
         \o (IF Has(Head(sections), "subsections")
             THEN SubsectionRows(Head(sections).subsections, data)
             ELSE <<>>)
         \o SectionRows(Tail(sections), data)

SummaryRows(summary) ==
    [k \in 1..Len(summary) |-> Row(TRUE, 0, summary[k].name, summary[k].values)]

\* an export that stops after the sections
exportAsCSVWithoutSummary(data) ==
    <<HeaderRow(data)>> \o SectionRows(data.sections, data)
\* csvRows as exportAsCSV has built them when it calls downloadFile
exportAsCSV(data) ==
    <<HeaderRow(data)>> \o SectionRows(data.sections, data) \o SummaryRows(data.summary)

\* the rows of the file the last handler offered for download, if it was
\* exportAsCSV with a document loaded and reached downloadFile
DownloadedCsv == IF lastOp.op = "exportAsCSV" /\ reportData # 0 /\ lastOp.id # "threw"
                 THEN exportAsCSV(Docs[reportData])
                 ELSE <<>>

-----------------------------------------------------------------------------

(* EasyMode: the period selector *)

\* @click="selectedMonth = index" of the button of column `index` (from 0);
\* the buttons are part of the report block, one per column
SelectPeriod(index) ==
    /\ page = "EasyMode"
    /\ ReportShown
    /\ index \in 0..(Len(Docs[reportData].columns) - 1)
    /\ selectedMonth' = index
    /\ lastOp' = Ran("selectPeriod", "", {})
    /\ UNCHANGED <<call, page, mounted, fetchVars, expandedSections, aiVars, menuVars,
                   sectionVars>>

-----------------------------------------------------------------------------
(* The FinancialSection component *)

RECURSIVE SectionsUnder(_)
\* the section records of a list and all their descendants
SectionsUnder(secs) ==
    UNION {{s} \cup SectionsUnder(SubsectionsOf(s)) : s \in Range(secs)}

\* props.section of the instance keyed id
PropsSection(d, id) == CHOOSE s \in SectionsUnder(Docs[d].sections) : s.id = id

\* toggleExpanded: the new value of the instance's isExpanded ref
toggleExpanded(sec, e) == IF sec.collapsible THEN ~e ELSE e

\* @click of the header row of the mounted instance keyed id, and the
\* re-render that mounts or unmounts the instances below it
ClickSectionHeader(id) ==
    /\ page = "FinancialSection"
    /\ id \in DOMAIN isExpanded
    /\ LET sec == PropsSection(section, id)
           refs == [isExpanded EXCEPT ![id] = toggleExpanded(sec, isExpanded[id])]
       IN /\ sec.name # ""
          /\ isExpanded' = AsRefs(Render(Docs[section].sections, refs))
    /\ lastOp' = Ran("toggleExpanded", id, {i \in DOMAIN isExpanded : isExpanded[i]})
    /\ UNCHANGED <<call, selectedMonth, page, mounted, fetchVars, expandedSections, aiVars, menuVars, section>>

-----------------------------------------------------------------------------
(* The view projection: whose children are on screen *)

\* the section with this id has its header row rendered
HeaderRendered(id) ==
    IF page \in ExpansionPages
    THEN ReportShown /\ id \in HeaderRows(Docs[reportData], expandedSections)
    ELSE page = "FinancialSection" /\ id \in DOMAIN isExpanded

\* the live expansion state of a section whose header is rendered
Expanded(id) ==
    IF page \in ExpansionPages THEN id \in expandedSections ELSE isExpanded[id]

\* the document on screen
ShownDoc == IF page = "FinancialSection" THEN section ELSE reportData

\* the rows below the header of the section (subsection rows, line items,
\* gross profit) are rendered: v-if="expandedSections.has(id)" in the pages,
\* v-if="isExpanded || !section.collapsible" in the component
ChildrenDisplayed(id) ==
    /\ HeaderRendered(id)
    /\ IF page \in ExpansionPages
       THEN id \in expandedSections
       ELSE ContentShown(PropsSection(section, id), isExpanded[id])

Next ==
    \/ OnMounted
    \/ TryAgain
    \/ \E o \in Outcomes, d \in 1..NumDocs : FetchSettle(o, d)
    \/ \E p \in Prompts : TypePrompt(p)
    \/ SuggestQuestion
    \/ ClickGenerate
    \/ EnterPrompt
    \/ \E o \in Outcomes, r \in Responses : CommentarySettle(o, r)
    \/ ClickAIInsights
    \/ ClosePanel
    \/ \E id \in SectionIds : ClickHeader(id)
    \/ \E key \in Keys : HandleKeydown(key)
    \/ ClickExportMenu
    \/ \E kind \in {"exportAsCSV", "exportAsJSON"} : Export(kind)
    \/ \E id \in SectionIds : ClickSectionHeader(id)
    \/ \E index \in 0..(MaxColumns - 1) : SelectPeriod(index)

Spec == Init /\ [][Next]_vars

-----------------------------------------------------------------------------
(* Helpers on their own.  The template calls calculatePercentageChange,    *)
(* formatCurrency and the other helpers with the values of whatever        *)
(* document is shown; here one call is made on arguments drawn from a      *)
(* bounded set, and the state keeps the arguments and the value returned.  *)

pageVars == <<selectedMonth, page, mounted, fetchVars, expandedSections, aiVars, menuVars,
              sectionVars, lastOp>>

\* the call c once it has returned r
Returned(c, r) == [result |-> r] @@ [c EXCEPT !.done = TRUE]

\* amounts of a column and of the column before it
Amounts == {-100, -5, 0, 5, 90, 100, 110}

\* a quotient, numerator over denominator; a denominator 0 is the Infinity or
\* NaN that a division by zero yields
Ratio(n, d) == [num |-> n, den |-> d]

\* the same computation without the guard on previous === 0
calculatePercentageChangeUnguarded(current, previous) ==
    Ratio((current - previous) * 100, Abs(previous))
calculatePercentageChange(current, previous) ==
    IF previous = 0
    THEN Ratio(IF current = 0 THEN 0 ELSE 100, 1)
    ELSE Ratio((current - previous) * 100, Abs(previous))

PercentageCalls ==
    [fn : {"calculatePercentageChange"}, current : Amounts, previous : Amounts,
     done : {FALSE}]

EvalPercentageChange ==
    /\ call.fn = "calculatePercentageChange"
    /\ ~call.done
    /\ call' = Returned(call, calculatePercentageChange(call.current, call.previous))
    /\ UNCHANGED pageVars

\* rows of the advanced page's table that can carry a trend under a value
TrendRows == {"section", "subsection", "lineItem", "summary"}

\* the same conditions with the upper limit at the last cell
TrendShownUpToLast(row, index, columns, entries, value, previous, hasTotal) ==
    CASE row = "section" -> hasTotal /\ index > 1 /\ index <= columns
      [] row = "subsection" -> index > 1 /\ index <= columns
      [] row = "lineItem" -> index > 1 /\ index <= entries /\ (value # 0 \/ previous # 0)
      [] row = "summary" -> index > 1 /\ index <= entries
\* v-if of the trend line under the value of cell `index` (counted from 1; the
\* source counts from 0, so its `i > 0 && i < length - 1` is `index > 1 /\
\* index < length` here).  Section and subsection rows have one cell per
\* column and compare with columns.length; line-item and summary rows have one
\* cell per entry of values and compare with values.length
TrendShown(row, index, columns, entries, value, previous, hasTotal) ==
    CASE row = "section" -> hasTotal /\ index > 1 /\ index < columns
      [] row = "subsection" -> index > 1 /\ index < columns
      [] row = "lineItem" -> index > 1 /\ index < entries /\ (value # 0 \/ previous # 0)
      [] row = "summary" -> index > 1 /\ index < entries

\* cells of reports of 1 to MaxColumns columns; a row of values has at most
\* one entry per column (a longer one makes columns[valueIndex].type throw)
TrendCalls ==
    {c \in [fn : {"trendShown"}, row : TrendRows, columns : 1..MaxColumns,
            entries : 1..MaxColumns, index : 1..MaxColumns, value : {0, 5},
            previous : {0, 5}, hasTotal : BOOLEAN, done : {FALSE}] :
        /\ c.entries <= c.columns
        /\ c.index <= (IF c.row \in {"lineItem", "summary"} THEN c.entries ELSE c.columns)
        /\ c.row \in {"section", "subsection"} => c.entries = c.columns
        /\ c.row # "lineItem" => c.value = 5 /\ c.previous = 5
        /\ c.row # "section" => c.hasTotal}

EvalTrendShown ==
    /\ call.fn = "trendShown"
    /\ ~call.done
    /\ call' = Returned(call, TrendShown(call.row, call.index, call.columns, call.entries,
                                         call.value, call.previous, call.hasTotal))
    /\ UNCHANGED pageVars

\* amounts in tenths: whole ones and ones with a fraction, of either sign
FixedAmounts == {-12345, -20, -15, -4, 0, 4, 15, 20, 12345}

FormatCalls ==
    [fn : {"formatCurrency"}, view : FormattingViews, value : FixedAmounts, done : {FALSE}]

EvalFormatCurrency ==
    /\ call.fn = "formatCurrency"
    /\ ~call.done
    /\ call' = Returned(call, formatCurrency(call.view, call.value))
    /\ UNCHANGED pageVars

CellCalls ==
    [fn : {"lineItemCell"}, view : LineItemViews, value : FixedAmounts, done : {FALSE}]

EvalLineItemCell ==
    /\ call.fn = "lineItemCell"
    /\ ~call.done
    /\ call' = Returned(call, LineItemCell(call.view, call.value))
    /\ UNCHANGED pageVars

\* Texts whose characters matter are sequences of one-character strings.

UpperCase == <<"A", "B", "C", "D", "E", "F", "G", "H", "I", "J", "K", "L", "M">> \o
             <<"N", "O", "P", "Q", "R", "S", "T", "U", "V", "W", "X", "Y", "Z">>
LowerCase == <<"a", "b", "c", "d", "e", "f", "g", "h", "i", "j", "k", "l", "m">> \o
             <<"n", "o", "p", "q", "r", "s", "t", "u", "v", "w", "x", "y", "z">>

\* String.prototype.toLowerCase
toLowerCase(str) ==
    [k \in 1..Len(str) |->
        IF \E u \in 1..Len(UpperCase) : UpperCase[u] = str[k]
        THEN LowerCase[CHOOSE u \in 1..Len(UpperCase) : UpperCase[u] = str[k]]
        ELSE str[k]]

\* String.prototype.includes
includes(str, searchString) ==
    \E k \in 0..(Len(str) - Len(searchString)) :
        SubSeq(str, k + 1, k + Len(searchString)) = searchString

Cost == <<"c", "o", "s", "t">>
Expense == <<"e", "x", "p", "e", "n", "s", "e">>

\* isExpenseSection of the instance with props.section = sec: the id is
\* searched as it is, the name after toLowerCase; `?.` on a missing id or name
\* gives undefined, which counts as false
isExpenseSection(sec) ==
    \/ Has(sec, "id") /\ includes(sec.id, Cost)
    \/ Has(sec, "id") /\ includes(sec.id, Expense)
    \/ Has(sec, "name") /\ includes(toLowerCase(sec.name), Cost)
    \/ Has(sec, "name") /\ includes(toLowerCase(sec.name), Expense)

\* the colouring of the pages, which takes the sign alone
getValueClassBySignOnly(value, isExpense) ==
    IF value = 0
    THEN "text-gray-400"
    ELSE IF value >= 0 THEN "text-green-600" ELSE "text-red-600"
\* getValueClass of the component
getValueClass(value, isExpense) ==
    IF value = 0
    THEN "text-gray-400"
    ELSE IF isExpense
         THEN IF value > 0 THEN "text-red-600" ELSE "text-green-600"
         ELSE IF value >= 0 THEN "text-green-600" ELSE "text-red-600"

\* sections by id and name, as the documents label them (ids in lower case),
\* and sections that lack one or both
LabelledSections ==
    {[level |-> 1,
      id |-> <<"i", "n", "c", "o", "m", "e">>,
      name |-> <<"I", "n", "c", "o", "m", "e">>],
     [level |-> 1,
      id |-> <<"c", "o", "s", "t", "_", "o", "f", "_", "s", "a", "l", "e", "s">>,
      name |-> <<"C", "o", "s", "t", " ", "o", "f", " ", "S", "a", "l", "e", "s">>],
     [level |-> 1,
      id |-> <<"o", "p", "e", "r", "a", "t", "i", "n", "g", "_", "e", "x", "p", "e", "n", "s", "e", "s">>,
      name |-> <<"O", "p", "e", "r", "a", "t", "i", "n", "g", " ", "E", "x", "p", "e", "n", "s", "e", "s">>],
     [level |-> 1,
      id |-> <<"c", "o", "g", "s">>,
      name |-> <<"C", "o", "s", "t", " ", "o", "f", " ", "G", "o", "o", "d", "s">>],
     [level |-> 1,
      id |-> <<"o", "v", "e", "r", "h", "e", "a", "d", "s">>,
      name |-> <<"E", "X", "P", "E", "N", "S", "E", "S">>],
     [level |-> 1,
      id |-> <<"o", "t", "h", "e", "r">>,
      name |-> <<"O", "t", "h", "e", "r">>],
     [level |-> 1,
      name |-> <<"C", "o", "s", "t", "s">>],
     [level |-> 1,
      id |-> <<"e", "x", "p", "e", "n", "s", "e", "_", "c", "l", "a", "i", "m", "s">>],
     [level |-> 1]}

ClassCalls ==
    [fn : {"getValueClass"}, sec : LabelledSections, value : {-5, 0, 5}, done : {FALSE}]

\* the class bound on a cell of the instance: getValueClass(value, isExpenseSection)
EvalValueClass ==
    /\ call.fn = "getValueClass"
    /\ ~call.done
    /\ call' = Returned(call, [isExpense |-> isExpenseSection(call.sec),
                               class |-> getValueClass(call.value,
                                                       isExpenseSection(call.sec))])
    /\ UNCHANGED pageVars

\* column labels, character by character: plain ones and one with a comma
MonthLabels == {<<"J", "a", "n">>,
                <<"Q", "1", " ", "2", "4">>,
                <<"M", "a", "r", ",", " ", "2", "4">>}

\* the columns of a report of up to MaxColumns columns
ColumnLists ==
    UNION {[1..n -> [month : MonthLabels, type : {"Actual"}]] : n \in 1..MaxColumns}

AccountText == <<"A", "c", "c", "o", "u", "n", "t">>

RECURSIVE join(_, _)
\* Array.prototype.join
join(fields, separator) ==
    IF fields = <<>>
    THEN <<>>
    ELSE IF Len(fields) = 1
         THEN Head(fields)
         ELSE Head(fields) \o separator \o join(Tail(fields), separator)

\* ['Account', ...columns.map((col) => col.month)]
headers(columns) == <<AccountText>> \o [k \in 1..Len(columns) |-> columns[k].month]

\* headers.join(','): the first row of the file
csvHeaderLine(columns) == join(headers(columns), <<",">>)

CsvHeaderCalls == [fn : {"csvHeaderLine"}, columns : ColumnLists, done : {FALSE}]

EvalCsvHeaderLine ==
    /\ call.fn = "csvHeaderLine"
    /\ ~call.done
    /\ call' = Returned(call, csvHeaderLine(call.columns))
    /\ UNCHANGED pageVars

\* values arrays of a line item: none, one or two entries
ValueLists == {<<>>, <<3>>, <<3, 4>>}

\* sections with one subsection of two line items
ShortSections ==
    {[id |-> "s", level |-> 1,
      subsections |-> <<[id |-> "t", level |-> 2,
                         line_items |-> <<LineItem("x", "x1", v), LineItem("y", "y1", w)>>]>>]
     : v \in ValueLists, w \in ValueLists}

SectionTotalCalls ==
    [fn : {"calculateSectionTotal"}, sec : ShortSections, columnIndex : 1..MaxColumns,
     done : {FALSE}]

EvalSectionTotal ==
    /\ call.fn = "calculateSectionTotal"
    /\ ~call.done
    /\ call' = Returned(call, calculateSectionTotal(call.sec, call.columnIndex))
    /\ UNCHANGED pageVars

Calls == PercentageCalls \cup TrendCalls \cup FormatCalls \cup CellCalls \cup ClassCalls
             \cup CsvHeaderCalls \cup SectionTotalCalls

InitHelpers ==
    /\ InitPage("Advanced")
    /\ call \in Calls

NextHelpers ==
    \/ EvalPercentageChange
    \/ EvalTrendShown
    \/ EvalFormatCurrency
    \/ EvalLineItemCell
    \/ EvalValueClass
    \/ EvalCsvHeaderLine
    \/ EvalSectionTotal

SpecHelpers == InitHelpers /\ [][NextHelpers]_vars

-----------------------------------------------------------------------------

(* Claims *)

SettledFetch == lastOp.op \in {"fetchOk", "fetchFailed"}

\* C1: once a report fetch has settled, loading is false and exactly one of
\* success (document set, error null) and error (error set) holds; no state has
\* both error and reportData set.
C1_FetchSettlesToOneOutcome ==
    /\ SettledFetch =>
          /\ ~loading
          /\ (reportData # 0 /\ error = NULL) # (error # NULL)
    /\ ~(error # NULL /\ reportData # 0)

\* C2: at most one commentary request is in flight in every reachable state, and
\* while one is in flight aiLoading is set, so no second call is issued.
C2_OneCommentaryInFlight ==
    /\ aiPending <= 1
    /\ aiPending = 1 => aiLoading

\* C2 witness: a request is in flight while the panel is on screen with a usable
\* prompt in the box.
C2_Witness ==
    /\ aiPending = 1
    /\ PanelShown
    /\ Trim(aiPrompt) # ""
    /\ lastOp.prev.op = "generateCommentary"

SettledCommentary == lastOp.op \in {"commentaryOk", "commentaryFailed"}

\* C3: once a commentary request has settled, aiLoading is false and exactly
\* one of a response (aiResponse non-empty, aiError null) and an error (aiError
\* set, no response) is shown; no state has both aiError and aiResponse set.
C3_CommentarySettlesToOneOutcome ==
    /\ SettledCommentary =>
          /\ ~aiLoading
          /\ (aiResponse # "" /\ aiError = NULL) # (aiError # NULL /\ aiResponse = "")
    /\ ~(aiError # NULL /\ aiResponse # "")

\* C4: a toggleSection(id) step flips the membership of id in the expansion set
\* and leaves the membership of every other id as it was.
C4_ToggleFlipsOnlyItsId ==
    [][lastOp'.op = "toggleSection" =>
          /\ (lastOp'.id \in expandedSections') # (lastOp'.id \in expandedSections)
          /\ \A other \in SectionIds \ {lastOp'.id} :
                (other \in expandedSections') = (other \in expandedSections)
          /\ expandedSections' \subseteq SectionIds]_vars

\* C4 witness: a toggle has removed an id from a set that keeps other ids.
C4_Witness ==
    /\ lastOp.op = "toggleSection"
    /\ lastOp.id \notin expandedSections
    /\ lastOp.id \in lastOp.before
    /\ expandedSections # {}

\* C5: two toggles of the same id in a row give back the expansion set found by
\* the first (in the component: the instance's own isExpanded ref).
C5_ToggleTwiceRestores ==
    [][/\ lastOp'.op = lastOp.op
       /\ lastOp'.id = lastOp.id
       /\ lastOp.op \in {"toggleSection", "toggleExpanded"}
       => IF lastOp.op = "toggleSection"
          THEN expandedSections' = lastOp.before
          ELSE /\ lastOp.id \in DOMAIN isExpanded'
               /\ isExpanded'[lastOp.id] = (lastOp.id \in lastOp.before)]_vars

\* C5 witness: the same header was clicked twice in a row, starting from an
\* expansion set that held the id and others.
C5_Witness ==
    /\ lastOp.op = "toggleSection"
    /\ lastOp.prev = [op |-> "toggleSection", id |-> lastOp.id]
    /\ lastOp.id \in expandedSections
    /\ expandedSections # {lastOp.id}

\* C6: Alt+X followed by Alt+C leaves the expansion set empty, with or without a
\* document and whatever the set was.
C6_ExpandThenCollapseIsEmpty ==
    [][lastOp.op = "Alt+x" /\ lastOp'.op = "Alt+c" => expandedSections' = {}]_vars

\* C6 witness: Alt+C has run right after Alt+X while no document was loaded.
C6_Witness ==
    /\ lastOp.op = "Alt+c"
    /\ lastOp.prev.op = "Alt+x"
    /\ reportData = 0

\* the ids of the sections of a document down to the sub-subsections
IdsToDepth3(d) == {s.id : s \in {x \in SectionsUnder(Docs[d].sections) : x.level <= 3}}

\* C7: Alt+X is a union: the set after it holds every id it held before and,
\* with a document loaded, the id of every section, subsection and
\* sub-subsection.
C7_ExpandAllIsUnion ==
    [][lastOp'.op = "Alt+x" =>
          /\ expandedSections \subseteq expandedSections'
          /\ reportData # 0 => IdsToDepth3(reportData) \subseteq expandedSections']_vars

\* the ids of the sections, down to the sub-subsections, sent with expanded set
ExpandedInDocument(d) ==
    {s.id : s \in {x \in SectionsUnder(Docs[d].sections) : x.level <= 3 /\ x.expanded}}

\* C8: right after the document has loaded, before any user action, the
\* expansion set is exactly the ids whose section is sent with expanded = true.
C8_SeededFromExpandedFlags ==
    (/\ page \in ExpansionPages
     /\ lastOp.op = "fetchOk"
     /\ lastOp.prev.op = "onMounted")
    => expandedSections = ExpandedInDocument(reportData)

\* the section record behind a header on screen
ShownSection(id) == PropsSection(ShownDoc, id)

\* C9: the rows below a section whose header is on screen are displayed if and
\* only if the section is expanded or not collapsible.
C9_ChildrenShownIffExpandedOrFixed ==
    \A id \in SectionIds :
        HeaderRendered(id) =>
            (ChildrenDisplayed(id) <=> (Expanded(id) \/ ~ShownSection(id).collapsible))

\* C10: a click on the header of a section that is not collapsible leaves that
\* section's expansion state as it was.
C10_FixedSectionsDoNotToggle ==
    [][/\ lastOp'.op \in {"toggleSection", "toggleExpanded"}
       /\ ~PropsSection(ShownDoc, lastOp'.id).collapsible
       => IF lastOp'.op = "toggleSection"
          THEN (lastOp'.id \in expandedSections') = (lastOp'.id \in expandedSections)
          ELSE isExpanded'[lastOp'.id] = isExpanded[lastOp'.id]]_vars

CommentaryOps == {"generateCommentary", "commentaryOk", "commentaryFailed"}

\* C11: while the report-load error is set the report block is not rendered,
\* and no step of a commentary request (its start, its success, its failure)
\* changes reportData, loading, error or the expansion set.
C11_FailuresAreIsolated ==
    /\ [](error # NULL => ~ReportShown)
    /\ [][lastOp'.op \in CommentaryOps
          => UNCHANGED <<reportData, loading, error, expandedSections>>]_vars

\* a commentary request has failed beside a rendered report with open sections
C11_Witness ==
    /\ lastOp.op = "commentaryFailed"
    /\ aiError # NULL
    /\ ReportShown
    /\ expandedSections # {}

\* the document of the advanced page
Loaded == Docs[reportData]

ColumnIndices(data) == 1..Len(data.columns)

\* every section record of a document, at any depth
EverySection(data) == SectionsUnder(data.sections)

\* the line items directly under section s, as <<section id, position>>
ItemsAt(s) == IF Has(s, "line_items") THEN {<<s.id, k>> : k \in 1..Len(s.line_items)} ELSE {}

\* the line items reachable under the descendant sections of s
ItemsBelow(s) == UNION {ItemsAt(d) : d \in SectionsUnder(SubsectionsOf(s))}

\* values[i] of the line item at position it of document data
ItemValue(data, it, i) ==
    (CHOOSE s \in EverySection(data) : s.id = it[1]).line_items[it[2]].values[i]

RECURSIVE SumOver(_, _, _)
SumOver(data, items, i) ==
    IF items = {}
    THEN 0
    ELSE LET it == CHOOSE x \in items : TRUE
         IN ItemValue(data, it, i) + SumOver(data, items \ {it}, i)

\* C12: calculateSectionTotal(S, i) is the sum of values[i] over every line
\* item under the descendant sections of S, whatever their depth.
C12_TotalSumsDescendantItems ==
    (page = "Advanced" /\ reportData # 0) =>
        \A s \in EverySection(Loaded) : \A i \in ColumnIndices(Loaded) :
            calculateSectionTotal(s, i) = SumOver(Loaded, ItemsBelow(s), i)

\* the advanced page shows the total of a subsection whose line items sit two
\* and three levels below it
C12_Witness ==
    /\ page = "Advanced"
    /\ ReportShown
    /\ "income" \in expandedSections
    /\ \E s \in EverySection(Loaded) :
          /\ s.level = 1
          /\ \E d \in SectionsUnder(SubsectionsOf(s)) : d.level = 4 /\ ItemsAt(d) # {}
          /\ calculateSectionTotal(s, 1) # calculateSectionTotalOneLevel(s, 1)

\* C13: for a section that carries both line items and subsections,
\* calculateSectionTotal(S, i) counts its own line items as well as those
\* under its subsections.
C13_TotalIncludesOwnItems ==
    (page = "Advanced" /\ reportData # 0) =>
        \A s \in EverySection(Loaded) : \A i \in ColumnIndices(Loaded) :
            (ItemsAt(s) # {} /\ SubsectionsOf(s) # <<>>) =>
                calculateSectionTotal(s, i)
                    = SumOver(Loaded, ItemsAt(s) \cup ItemsBelow(s), i)

\* the cell of the advanced page that shows the aggregate of section s
AggregateCell(s, i) ==
    IF s.level = 1 THEN SectionTotalCell(s, i) ELSE SubsectionTotalCell(s, i)

\* the CSV row that carries the aggregate of section s
AggregateRow(s, data) ==
    IF s.level = 1 THEN SectionRow(s, data) ELSE SubsectionRow(s, data)

\* C14: a section that carries its own total has that total's values in its
\* header cell of the table and in its row of the CSV file, never a sum
\* computed from line items; a sum is computed only where the total is absent.
C14_OwnTotalIsUsedVerbatim ==
    (page = "Advanced" /\ reportData # 0) =>
        \A s \in EverySection(Loaded) : \A i \in ColumnIndices(Loaded) :
            (s.level \in {1, 2} /\ Has(s, "total")) =>
                /\ AggregateCell(s, i) = formatCurrency("Advanced", Whole(s.total.values[i]))
                /\ AggregateRow(s, Loaded).cells[i] = s.total.values[i]
                /\ lastOp.op = "exportAsCSV" =>
                      \E k \in 1..Len(DownloadedCsv) :
                          /\ DownloadedCsv[k].name = s.name
                          /\ DownloadedCsv[k].cells[i] = s.total.values[i]

\* the ratio r is the number n
Is(r, n) == r.den # 0 /\ r.num = n * r.den

\* C15: calculatePercentageChange returns a finite number for every pair of
\* amounts: 0 for (0, 0), 100 for any other current over previous = 0, and
\* ((current - previous) / |previous|) * 100 otherwise; in particular
\* (5,0) = 100, (-5,0) = 100, (110,100) = 10, (90,100) = -10.
C15_PercentageChangeIsTotal ==
    (call.fn = "calculatePercentageChange" /\ call.done) =>
        LET c == call.current
            p == call.previous
            r == call.result
        IN /\ r.den # 0
           /\ (p = 0 /\ c = 0) => Is(r, 0)
           /\ (p = 0 /\ c # 0) => Is(r, 100)
           /\ p # 0 => r.num * Abs(p) = (c - p) * 100 * r.den
           /\ (c = 110 /\ p = 100) => Is(r, 10)
           /\ (c = 90 /\ p = 100) => Is(r, -10)

\* a negative amount after a zero column has been compared
C15_Witness ==
    /\ call.fn = "calculatePercentageChange"
    /\ call.done
    /\ call.previous = 0
    /\ call.current = -5
    /\ Is(call.result, 100)

\* C16: a trend is shown under a value only at a cell that is neither in the
\* first nor in the last column, in section, subsection, line-item and summary
\* rows alike; a report of one or two columns shows none.
C16_NoTrendInFirstOrLastColumn ==
    (call.fn = "trendShown" /\ call.done /\ call.result) =>
        /\ call.index > 1
        /\ call.index < call.columns

\* the last cell of a line item in a report of two columns shows no trend
C16_Witness ==
    /\ call.fn = "trendShown"
    /\ call.done
    /\ call.row = "lineItem"
    /\ call.columns = 2
    /\ call.index = 2
    /\ call.value # 0
    /\ ~call.result

\* C17: formatCurrency(v) shows the absolute value of v as a whole number, with
\* no decimals and no minus sign, in parentheses exactly when v < 0; the texts
\* for v and -v have the same digits.
C17_CurrencyIsWholeAbsoluteValue ==
    (call.fn = "formatCurrency" /\ call.done) =>
        LET v == call.value
            r == call.result
            m == formatCurrency(call.view, 0 - v)
        IN /\ r.decimals = 0
           /\ r.digits >= 0
           /\ Abs(r.digits * 10 - Abs(v)) <= 5
           /\ r.parens <=> v < 0
           /\ r.digits = m.digits /\ r.decimals = m.decimals /\ r.symbol = m.symbol

\* C18: in every view that renders line-item rows, the cell of a value 0 shows
\* the placeholder glyph, never a formatted zero.
C18_ZeroShowsPlaceholder ==
    (call.fn = "lineItemCell" /\ call.done /\ call.value = 0) =>
        /\ Has(call.result, "glyph")
        /\ \A view \in FormattingViews : call.result # formatCurrency(view, 0)

\* the text, in any mix of cases, contains the word
Mentions(sec, f, word) == Has(sec, f) /\ includes(toLowerCase(sec[f]), word)

Opposite(class) ==
    CASE class = "text-red-600" -> "text-green-600"
      [] class = "text-green-600" -> "text-red-600"
      [] OTHER -> class

SectionsAt(data, lvl) == {s \in EverySection(data) : s.level = lvl}
ItemsOfLevel(data, lvl) == UNION {ItemsAt(s) : s \in SectionsAt(data, lvl)}

\* C20: the CSV file of a loaded document has one header row, one row per
\* top-level section, one per subsection, one per line item of a
\* sub-subsection and one per summary item.
C20_CsvRowCount ==
    (lastOp.op = "exportAsCSV" /\ reportData # 0 /\ ~CsvThrows(Loaded)) =>
        Len(DownloadedCsv) = 1 + Cardinality(SectionsAt(Loaded, 1))
                               + Cardinality(SectionsAt(Loaded, 2))
                               + Cardinality(ItemsOfLevel(Loaded, 3))
                               + Len(Loaded.summary)

\* a document with sub-subsection line items and direct ones has been exported
C20_Witness ==
    /\ lastOp.op = "exportAsCSV"
    /\ reportData # 0
    /\ ItemsOfLevel(Loaded, 3) # {}
    /\ ItemsOfLevel(Loaded, 2) # {}
    /\ Len(DownloadedCsv) = 7

\* every line item of a document, at any depth, as <<section id, position>>
EveryItem(data) == UNION {ItemsAt(s) : s \in EverySection(data)}

\* the line item at position it of document data
ItemRecord(data, it) ==
    (CHOOSE s \in EverySection(data) : s.id = it[1]).line_items[it[2]]

\* the rows of the file that carry the line item
RowsOfItem(rows, item) ==
    {k \in 1..Len(rows) : /\ rows[k].indent = 4
                          /\ rows[k].name = item.name
                          /\ rows[k].cells = item.values}

\* C21: every line item of the document, wherever it sits in the section
\* tree, has exactly one row in the CSV file, carrying its values.
C21_CsvHasEveryLineItem ==
    (lastOp.op = "exportAsCSV" /\ reportData # 0 /\ ~CsvThrows(Loaded)) =>
        \A it \in EveryItem(Loaded) :
            Cardinality(RowsOfItem(DownloadedCsv, ItemRecord(Loaded, it))) = 1

RECURSIVE SplitOn(_, _)
\* the fields of a line of text between the occurrences of the separator
SplitOn(text, ch) ==
    IF \E k \in 1..Len(text) : text[k] = ch
    THEN LET k == CHOOSE i \in 1..Len(text) :
                      text[i] = ch /\ \A j \in 1..(i - 1) : text[j] # ch
         IN <<SubSeq(text, 1, k - 1)>> \o SplitOn(SubSeq(text, k + 1, Len(text)), ch)
    ELSE <<text>>

\* C22: the first row of the CSV file is "Account" followed by the label of
\* each column in order, and splitting it on the comma gives back exactly
\* columns.length + 1 fields, whatever the labels contain.
C22_HeaderSplitsIntoItsFields ==
    (call.fn = "csvHeaderLine" /\ call.done) =>
        /\ Len(SplitOn(call.result, ",")) = Len(call.columns) + 1
        /\ SplitOn(call.result, ",") = headers(call.columns)

ExportOps == {"exportAsCSV", "exportAsJSON"}

\* C23: exportAsCSV and exportAsJSON never change reportData or the expansion
\* set; with a document loaded they end with isExporting and showExportMenu
\* false, also when building the content throws; with no document they change
\* nothing.
C23_ExportLeavesViewState ==
    [][lastOp'.op \in ExportOps
       => /\ UNCHANGED <<reportData, expandedSections>>
          /\ reportData # 0 => (~isExporting' /\ ~showExportMenu')
          /\ reportData = 0 =>
                UNCHANGED <<page, mounted, fetchVars, expandedSections, aiVars,
                            menuVars, sectionVars, call>>]_vars

\* a CSV export has thrown while building its rows, with sections expanded
C23_Witness ==
    /\ lastOp.op = "exportAsCSV"
    /\ lastOp.id = "threw"
    /\ reportData # 0
    /\ expandedSections # {}
    /\ ~isExporting
    /\ ~showExportMenu

\* C24: reportData changes only in the step in which a report fetch settles
\* successfully; no toggle, expand-all, collapse-all, keyboard shortcut,
\* export, commentary step or failed fetch changes it.
C24_DocumentChangesOnlyOnFetchSuccess ==
    [][reportData' # reportData => lastOp'.op = "fetchOk"]_vars

\* a retry after a failure has loaded a document
C24_Witness ==
    /\ lastOp.op = "fetchOk"
    /\ lastOp.prev.op = "tryAgain"
    /\ reportData = 2
    /\ error # NULL

\* the header click and the expand-all / collapse-all shortcuts
ToggleOps == {"toggleSection", "Alt+x", "Alt+c"}

\* C25 as stated: the expansion set changes only in a step of a user's toggle
\* (header click, expand all, collapse all); no fetch settlement, commentary
\* step or export changes it.
C25_OnlyTogglesChangeExpansion ==
    [][expandedSections' # expandedSections => lastOp'.op \in ToggleOps]_vars

\* C25 amended: the expansion set changes only in a step of a user's toggle
\* and, in the typed page, in the step in which a report fetch settles
\* successfully and seeds it from the document; no failed fetch, commentary
\* step or export changes it.
C25_OnlyTogglesAndSeedingChangeExpansion ==
    [][expandedSections' # expandedSections
       => \/ lastOp'.op \in ToggleOps
          \/ page = "Typed" /\ lastOp'.op = "fetchOk"]_vars

\* the typed page has seeded its expansion set from the loaded document
C25_Witness ==
    /\ page = "Typed"
    /\ lastOp.op = "fetchOk"
    /\ reportData # 0
    /\ expandedSections # {}

\* the line items of the subsection of a section with one subsection
ItemsOfOnly(sec) == sec.subsections[1].line_items

\* C26: a line item whose values array has no entry at the column asked for
\* adds 0 to calculateSectionTotal, and the total is a number: the sum of the
\* entries that exist.
C26_MissingEntryCountsAsZero ==
    (call.fn = "calculateSectionTotal" /\ call.done) =>
        LET items == ItemsOfOnly(call.sec)
            i == call.columnIndex
            Entry(k) == IF i <= Len(items[k].values) THEN items[k].values[i] ELSE 0
        IN /\ call.result \in Int
           /\ call.result = Entry(1) + Entry(2)

\* a total over one line item that has the entry and one that lacks it
C26_Witness ==
    /\ call.fn = "calculateSectionTotal"
    /\ call.done
    /\ call.columnIndex = 2
    /\ Len(ItemsOfOnly(call.sec)[1].values) = 2
    /\ Len(ItemsOfOnly(call.sec)[2].values) = 1
    /\ call.result = 4

\* C27: when the fetch started by Try Again after a failure succeeds, the
\* error of the earlier failure is gone and the report is rendered.
C27_RetryRecovers ==
    (lastOp.op = "fetchOk" /\ lastOp.prev.op = "tryAgain") =>
        /\ error = NULL
        /\ ~ErrorShown
        /\ ReportShown

\* C28: in the Easy Mode view, whenever a document is loaded, selectedMonth is
\* an index of one of the document's columns (counted from 0).
C28_SelectedMonthIsAColumn ==
    (page = "EasyMode" /\ reportData # 0) =>
        selectedMonth \in 0..(Len(Docs[reportData].columns) - 1)

\* the line-item rows beneath row k of the file: those up to the next row of a
\* subsection, a section or the summary
RowsBeneath(rows, k) ==
    {j \in (k + 1)..Len(rows) : \A m \in (k + 1)..j : rows[m].indent = 4}

RECURSIVE SumCells(_, _, _)
SumCells(rows, js, i) ==
    IF js = {}
    THEN 0
    ELSE LET j == CHOOSE x \in js : TRUE
         IN rows[j].cells[i] + SumCells(rows, js \ {j}, i)

\* C29: in the CSV file, the total row of every subsection has, in every
\* column, the sum of that column over the line-item rows written beneath it.
C29_CsvSubsectionTotalMatchesRows ==
    (lastOp.op = "exportAsCSV" /\ reportData # 0) =>
        \A k \in 1..Len(DownloadedCsv) :
            DownloadedCsv[k].indent = 2 =>
                \A i \in ColumnIndices(Loaded) :
                    DownloadedCsv[k].cells[i]
                        = SumCells(DownloadedCsv, RowsBeneath(DownloadedCsv, k), i)

\* the ids of the sections above the section keyed id
AncestorsOf(data, id) ==
    {a.id : a \in {x \in EverySection(data) : id \in IdsOf(SubsectionsOf(x))}}

\* the line-item rows on screen in the advanced page
RowsOnScreen == IF page = "Advanced" /\ ReportShown
                THEN LineItemRows(Loaded, expandedSections)
                ELSE {}

\* C30: in the table of the advanced page a line-item row is displayed only
\* when its sub-subsection, its subsection and its section are all in the
\* expansion set; collapsing a header removes that id alone from the set and
\* hides the rows below it, and expanding it again right away brings back the
\* set and the rows there were before.
C30_CollapseHidesAndReexpandRestores ==
    /\ [](\A it \in RowsOnScreen :
              /\ it[1] \in expandedSections
              /\ Cardinality(AncestorsOf(Loaded, it[1])) = 2
              /\ AncestorsOf(Loaded, it[1]) \subseteq expandedSections)
    /\ [][(page = "Advanced" /\ lastOp'.op = "toggleSection")
          => /\ lastOp'.id \in expandedSections =>
                  /\ expandedSections' = expandedSections \ {lastOp'.id}
                  /\ \A it \in RowsOnScreen' :
                        lastOp'.id \notin AncestorsOf(Loaded, it[1]) \cup {it[1]}
             /\ (/\ lastOp'.id \notin expandedSections
                 /\ lastOp.op = "toggleSection"
                 /\ lastOp.id = lastOp'.id)
                => /\ expandedSections' = lastOp.before
                   /\ RowsOnScreen' = LineItemRows(Loaded, lastOp.before)]_vars

\* a section above displayed line items has been collapsed and expanded again,
\* and the line items are displayed
C30_Witness ==
    /\ page = "Advanced"
    /\ lastOp.op = "toggleSection"
    /\ lastOp.prev = [op |-> "toggleSection", id |-> lastOp.id]
    /\ lastOp.id \in expandedSections
    /\ \E it \in RowsOnScreen : lastOp.id \in AncestorsOf(Loaded, it[1])

====
